---------------------------- MODULE Spec2Model ----------------------------
(***************************************************************************)
(* A model of the iForth interpreter (src/forth.cpp): the lexer, the       *)
(* machine state and the interpret behaviour of every token kind.          *)
(*                                                                         *)
(* Source text is a sequence of one-character strings.  A token is a       *)
(* record [kind, text]; a token address is a 0-based index into            *)
(* token_stream, as machine_state::addr computes it, and the end iterator  *)
(* is the index Len(token_stream).                                         *)
(***************************************************************************)
EXTENDS Integers, Sequences, FiniteSets, TLC

(***************************************************************************)
(* Bounds of the model.                                                    *)
(***************************************************************************)
\* Longest program drawn exhaustively from the vocabulary CoreWords.
MaxLen == 3
\* Most steps of the evaluator loop followed in one run.
MaxSteps == 16
\* Most times a run is followed past undefined behaviour that did not end it.
MaxUB == 1
\* Longest payload of the string literals drawn exhaustively.
MaxPayload == 3

(***************************************************************************)
(* Program constants.                                                      *)
(***************************************************************************)
\* INT_MAX of the 32-bit int the stacks and addresses are made of.
IntMax == 2147483647
\* Bytes of the in-object buffer of a std::string (15 characters and a NUL).
SsoBuf == 16

IntMin == (-IntMax) - 1

(***************************************************************************)
(* Characters.                                                             *)
(***************************************************************************)
isspace(c) == c \in {" ", "\t", "\n", "\r"}

UpperCase == <<"A","B","C","D","E","F","G","H","I","J","K","L","M",
               "N","O","P","Q","R","S","T","U","V","W","X","Y","Z">>
LowerCase == <<"a","b","c","d","e","f","g","h","i","j","k","l","m",
               "n","o","p","q","r","s","t","u","v","w","x","y","z">>

\* The lambda of toLower: c - ('A' - 'a') for 'A' <= c <= 'Z', else c.
LowerChar(c) ==
  IF \E k \in 1..26 : UpperCase[k] = c
  THEN LowerCase[CHOOSE k \in 1..26 : UpperCase[k] = c]
  ELSE c

DecDigits == <<"0","1","2","3","4","5","6","7","8","9">>
HexDigits == DecDigits \o <<"a","b","c","d","e","f">>

\* The value of c as a digit of `base`, or -1 when it is none.
DigitVal(c, base) ==
  LET lc == LowerChar(c)
      ks == {k \in 1..16 : HexDigits[k] = lc}
  IN  IF ks = {} THEN -1
      ELSE LET v == (CHOOSE k \in ks : TRUE) - 1
           IN  IF v < base THEN v ELSE -1

(***************************************************************************)
(* The lexer.                                                              *)
(***************************************************************************)
\* skipWs: the first position >= p that holds no whitespace (Len+1: the end).
skipWs(text, p) ==
  LET stop == {q \in p..Len(text) : ~isspace(text[q])}
  IN  IF stop = {} THEN Len(text) + 1
      ELSE CHOOSE q \in stop : \A q2 \in stop : q <= q2

\* One past the run of non-whitespace that starts at p.
RunEnd(text, p) ==
  LET stop == {q \in p..Len(text) : isspace(text[q])}
  IN  IF stop = {} THEN Len(text) + 1
      ELSE CHOOSE q \in stop : \A q2 \in stop : q <= q2

\* The lookahead (?=(\s|$)) that lexRegex appends to every pattern.
Boundary(text, q) == q > Len(text) \/ isspace(text[q])

\* The first position >= p holding c, or 0.
FindChar(text, p, c) ==
  LET hit == {q \in p..Len(text) : text[q] = c}
  IN  IF hit = {} THEN 0
      ELSE CHOOSE q \in hit : \A q2 \in hit : q <= q2

\* Each rule gives the length of its match at p, 0 for no match.
\* \([^\)]*\)
lexComment(text, p) ==
  IF text[p] # "(" THEN 0
  ELSE LET q == FindChar(text, p + 1, ")")
       IN  IF q # 0 /\ Boundary(text, q + 1) THEN q - p + 1 ELSE 0

\* lexChar: one character, no lookahead.
lexChar(text, p, c) == IF text[p] = c THEN 1 ELSE 0

\* \[[^\s]+\]
lexLabel(text, p) ==
  LET e == RunEnd(text, p)
  IN  IF text[p] = "[" /\ e - p >= 3 /\ text[e - 1] = "]" THEN e - p ELSE 0

\* \.([cds]|"[^"]*")?
lexPrint(text, p) ==
  IF text[p] # "." THEN 0
  ELSE IF p + 1 <= Len(text) /\ text[p + 1] \in {"c", "d", "s"}
          /\ Boundary(text, p + 2) THEN 2
  ELSE IF p + 1 <= Len(text) /\ text[p + 1] = "\""
          /\ FindChar(text, p + 2, "\"") # 0
          /\ Boundary(text, FindChar(text, p + 2, "\"") + 1)
       THEN FindChar(text, p + 2, "\"") - p + 1
  ELSE IF Boundary(text, p + 1) THEN 1
  ELSE 0

\* (-)?(0[xX][0-9a-fA-F]+|0[0-7]*|[1-9][0-9]*)
lexNumber(text, p) ==
  LET e == RunEnd(text, p)
      b == IF text[p] = "-" THEN p + 1 ELSE p
      AllDigits(from, base) ==
        \A q \in from..(e - 1) : DigitVal(text[q], base) >= 0
  IN  IF b >= e THEN 0
      ELSE IF /\ text[b] = "0" /\ b + 2 < e
              /\ text[b + 1] \in {"x", "X"} /\ AllDigits(b + 2, 16)
           THEN e - p
      ELSE IF text[b] = "0" /\ AllDigits(b + 1, 8) THEN e - p
      ELSE IF DigitVal(text[b], 10) >= 1 /\ AllDigits(b + 1, 10) THEN e - p
      ELSE 0

\* "[^"]*"
lexString(text, p) ==
  IF text[p] # "\"" THEN 0
  ELSE LET q == FindChar(text, p + 1, "\"")
       IN  IF q # 0 /\ Boundary(text, q + 1) THEN q - p + 1 ELSE 0

\* [^\s]+
lexIdentifier(text, p) == RunEnd(text, p) - p

\* token_table, in its order: the kind of each rule and its match at p.
token_table(text, p) ==
  << [kind |-> "comment",          n |-> lexComment(text, p)],
     [kind |-> "start_definition", n |-> lexChar(text, p, ":")],
     [kind |-> "end_definition",   n |-> lexChar(text, p, ";")],
     [kind |-> "label",            n |-> lexLabel(text, p)],
     [kind |-> "print",            n |-> lexPrint(text, p)],
     [kind |-> "number",           n |-> lexNumber(text, p)],
     [kind |-> "string",           n |-> lexString(text, p)],
     [kind |-> "identifier",       n |-> lexIdentifier(text, p)] >>

\* lexToken: the first rule of token_table that matches at p (p holds no
\* whitespace, so the identifier rule matches when no other does).
lexToken(text, p) ==
  LET tt == token_table(text, p)
      k  == CHOOSE k \in 1..Len(tt) :
              tt[k].n > 0 /\ \A j \in 1..(k - 1) : tt[j].n = 0
  IN  [kind |-> tt[k].kind, text |-> SubSeq(text, p, p + tt[k].n - 1),
       next |-> p + tt[k].n]

RECURSIVE LexFrom(_, _)
LexFrom(text, p) ==
  LET it == skipWs(text, p)
  IN  IF it > Len(text) THEN << >>
      ELSE LET t == lexToken(text, it)
           IN  << [kind |-> t.kind, text |-> t.text] >> \o LexFrom(text, t.next)

\* A lexer that pushes no comment token.
lexTokens_dropping(text) ==
  SelectSeq(LexFrom(text, 1), LAMBDA t : t.kind # "comment")

\* lexTokens: every token lexToken finds is pushed, whatever its kind.
lexTokens(text) == LexFrom(text, 1)

(***************************************************************************)
(* Character codes: (int)*it of interpString and (char)c of the print      *)
(* words.                                                                  *)
(***************************************************************************)
\* The printable ASCII characters, code 32 first (code 96 is spelled out).
Printable ==
  << " ","!","\"","#","$","%","&","'","(",")","*","+",
     ",","-",".","/","0","1","2","3","4","5","6","7",
     "8","9",":",";","<","=",">","?","@","A","B","C",
     "D","E","F","G","H","I","J","K","L","M","N","O",
     "P","Q","R","S","T","U","V","W","X","Y","Z","[",
     "\\","]","^","_","grave","a","b","c","d","e","f","g",
     "h","i","j","k","l","m","n","o","p","q","r","s",
     "t","u","v","w","x","y","z","{","|","}","~" >>

Ord(c) ==
  IF c = "\n" THEN 10 ELSE IF c = "\t" THEN 9 ELSE IF c = "\r" THEN 13
  ELSE 31 + (CHOOSE k \in 1..Len(Printable) : Printable[k] = c)

(***************************************************************************)
(* The machine state.                                                      *)
(***************************************************************************)
VARIABLES
  src,           \* the source buffer handed to lexTokens
  token_stream,  \* machine_state::token_stream
  curr_token,    \* machine_state::curr_token, as the address addr() gives it
  dstack,        \* machine_state::dstack, top last
  rstack,        \* machine_state::rstack, top last
  dictionary,    \* machine_state::dictionary: name -> address
  labels,        \* machine_state::labels: name -> address
  cout,          \* the bytes written to standard output
  status,        \* "running", "exited" (run returned), "error" (::exit(1)
                 \* of ~error_state) or "crashed" (undefined behaviour ended
                 \* the process abnormally)
  error_msg,     \* the message streamed into the error_state
  exit_code,     \* the process exit status, -1 while there is none
  pre,           \* history: the machine as it was before the last step
  pre2,          \* history: the machine as it was before the step before
  steps,         \* history: the steps of the loop of run() taken so far
  visited,       \* history: the addresses of the tokens interpreted so far
  calls,         \* history: the calls not yet returned from, each with the
                 \* address after the call and the return stack before it
  returned,      \* history: the call the last step returned from, if any
  ub             \* history: the times the run went on past undefined
                 \* behaviour

vars == << src, token_stream, curr_token, dstack, rstack, dictionary,
           labels, cout, status, error_msg, exit_code, pre, pre2, steps,
           visited,
           calls, returned, ub >>

\* The machine as one record, for the handlers to work on.
Machine ==
  [ip |-> curr_token, d |-> dstack, r |-> rstack, dict |-> dictionary,
   labels |-> labels, out |-> cout, st |-> status, msg |-> error_msg,
   code |-> exit_code, ub |-> ub]

EmptyMap == [k \in {} |-> 0]
Put(f, k, v) == [x \in (DOMAIN f) \cup {k} |-> IF x = k THEN v ELSE f[x]]

end_addr == Len(token_stream)
Tok(a) == token_stream[a + 1]
atEnd(m) == m.ip = end_addr

\* abs_inst without its clamping: the address is taken as it is.
abs_inst_unclamped(a) == a

\* abs_inst: an address made an iterator of the stream.
abs_inst(a) ==
  IF a >= 0 /\ a < end_addr THEN a
  ELSE IF a < 0 THEN 0
  ELSE end_addr

\* rel_inst: abs_inst(ip() + off).  The sum is an int: when it overflows the
\* behaviour is undefined, and the address abs_inst sees is either the
\* wrapped (negative) sum or the exact one.
rel_inst(m, off) ==
  IF off > IntMax - m.ip THEN {0, end_addr}
  ELSE {abs_inst(m.ip + off)}

\* The run goes on past undefined behaviour.
Undefined(m) == [m EXCEPT !.ub = @ + 1]

rbranch(m, off) ==
  {[(IF off > IntMax - m.ip THEN Undefined(m) ELSE m) EXCEPT !.ip = a] :
     a \in rel_inst(m, off)}
abranch(m, a) == [m EXCEPT !.ip = abs_inst(a)]

\* A next that goes round to the first token after the last one.
next_wraps(m) ==
  [m EXCEPT !.ip = IF m.ip + 1 >= end_addr THEN 0 ELSE m.ip + 1]

\* next: rbranch(1), whose sum cannot overflow.
next(m) == [m EXCEPT !.ip = abs_inst(m.ip + 1)]

push(m, n) == [m EXCEPT !.d = Append(@, n)]
rpush(m, n) == [m EXCEPT !.r = Append(@, n)]
Top(s) == s[Len(s)]
Pop(s) == SubSeq(s, 1, Len(s) - 1)

\* Undefined behaviour that ends the process abnormally.
Crash(m) == [m EXCEPT !.st = "crashed"]

\* error() << msg: the message names *curr_token, so at the end of the
\* stream building it dereferences the end iterator; then ~error_state
\* calls ::exit(1).
Error(m, msg) ==
  {[m EXCEPT !.st = "error", !.msg = msg, !.code = 1]}
    \cup (IF atEnd(m) THEN {Crash(m)} ELSE {})

\* k pops of the data stack in a row: the stack they leave, or the error of
\* the first pop() that finds it empty.
Underflow(m, k) == Len(m.d) < k
PopError(m) == Error([m EXCEPT !.d = << >>], "tried to pop from empty stack")

\* The kinds a token read through the end iterator may show.
Kinds == {"start_definition", "end_definition", "print", "identifier",
          "number", "string", "label", "comment"}

(***************************************************************************)
(* int arithmetic.  Overflow of +, - and * and division by zero (or of     *)
(* INT_MIN by -1) are undefined behaviour: the first leaves the wrapped    *)
(* result or traps, the second traps (x86) or leaves what a non-trapping   *)
(* divide instruction gives.                                               *)
(***************************************************************************)
AddOverflows(l, r) ==
  \/ r > 0 /\ l > IntMax - r
  \/ r < 0 /\ l < IntMin - r

\* l + r modulo 2^32, computed without leaving the int range.
AddWrap(l, r) ==
  IF r > 0 /\ l > IntMax - r THEN ((l - IntMax) - 1) + ((r - IntMax) - 1)
  ELSE IF r < 0 /\ l < IntMin - r THEN ((l + IntMax) + 1) + ((r + IntMax) + 1)
  ELSE l + r

NegWrap(x) == IF x = IntMin THEN IntMin ELSE -x

SubOverflows(l, r) ==
  IF r = IntMin THEN l >= 0 ELSE AddOverflows(l, -r)

SubWrap(l, r) ==
  IF r = IntMin THEN AddWrap(AddWrap(l, IntMax), 1) ELSE AddWrap(l, -r)

Abs(x) == IF x < 0 THEN -x ELSE x

MulOverflows(l, r) ==
  IF l = 0 \/ r = 0 THEN FALSE
  ELSE IF l = IntMin THEN r # 1
  ELSE IF r = IntMin THEN l # 1
  ELSE IF Abs(l) <= IntMax \div Abs(r) THEN FALSE
  ELSE ~(/\ (l < 0) # (r < 0)      \* the product is exactly INT_MIN
         /\ IntMin % Abs(r) = 0
         /\ IntMin \div Abs(r) = -Abs(l))

\* l * r modulo 2^32, by doubling.
RECURSIVE MulWrapNat(_, _)
MulWrapNat(l, n) ==
  IF n = 0 THEN 0
  ELSE AddWrap(MulWrapNat(AddWrap(l, l), n \div 2),
               IF n % 2 = 1 THEN l ELSE 0)

MulWrap(l, r) ==
  IF r = IntMin THEN (IF l % 2 = 0 THEN 0 ELSE IntMin)
  ELSE IF r < 0 THEN NegWrap(MulWrapNat(l, -r))
  ELSE MulWrapNat(l, r)

DivUndefined(l, r) == r = 0 \/ (l = IntMin /\ r = -1)

\* l / r of C++ (the quotient truncated toward zero), for a defined division.
TruncDiv(l, r) ==
  LET pos(a, b) == LET f == a \div b
                   IN  IF a < 0 /\ a % b # 0 THEN f + 1 ELSE f
  IN  IF r > 0 THEN pos(l, r)
      ELSE IF r = IntMin THEN (IF l = IntMin THEN 1 ELSE 0)
      ELSE -pos(l, -r)

\* l % r of C++ (the sign of l), for a defined division.
TruncRem(l, r) ==
  LET pos(a, b) == LET m == a % b
                   IN  IF a < 0 /\ m # 0 THEN m - b ELSE m
  IN  IF r > 0 THEN pos(l, r)
      ELSE IF r = IntMin THEN (IF l = IntMin THEN 0 ELSE l)
      ELSE pos(l, -r)

Bool(b) == IF b THEN 1 ELSE 0

\* What the switch of interpOperation pushes for a binary operator: the
\* values it may push, whether it may trap, and whether the operator is
\* malformed.
BinaryResult(text, l, r) ==
  LET c  == text[1]
      ok(v) == [vals |-> {v}, trap |-> FALSE, bad |-> FALSE]
      undef(v) == [vals |-> {v}, trap |-> TRUE, bad |-> FALSE]
  IN  CASE c = "+" -> IF AddOverflows(l, r) THEN undef(AddWrap(l, r))
                      ELSE ok(l + r)
        [] c = "-" -> IF SubOverflows(l, r) THEN undef(SubWrap(l, r))
                      ELSE ok(l - r)
        [] c = "*" -> IF MulOverflows(l, r) THEN undef(MulWrap(l, r))
                      ELSE ok(l * r)
        [] c = "/" -> IF DivUndefined(l, r)
                      THEN undef(IF r = 0 THEN 0 ELSE IntMin)
                      ELSE ok(TruncDiv(l, r))
        [] c = "%" -> IF DivUndefined(l, r)
                      THEN undef(IF r = 0 THEN l ELSE 0)
                      ELSE ok(TruncRem(l, r))
        [] c = "&" -> ok(Bool(l # 0 /\ r # 0))
        [] c = "|" -> ok(Bool(l # 0 \/ r # 0))
        [] c = "<" -> IF Len(text) = 1 THEN ok(Bool(l < r))
                      ELSE IF text[2] = "=" THEN ok(Bool(l <= r))
                      ELSE IF text[2] = ">" THEN ok(Bool(l # r))
                      ELSE [vals |-> {}, trap |-> FALSE, bad |-> TRUE]
        [] c = ">" -> IF Len(text) = 1 THEN ok(Bool(l > r))
                      ELSE IF text[2] = "=" THEN ok(Bool(l >= r))
                      ELSE [vals |-> {}, trap |-> FALSE, bad |-> TRUE]
        [] c = "=" -> ok(Bool(l = r))
        [] OTHER   -> [vals |-> {}, trap |-> FALSE, bad |-> FALSE]

(***************************************************************************)
(* strtol(text, nullptr, 0) of a Number token, then the narrowing of the   *)
(* long to int of push(int) and rbranch(int), which keeps the low 32 bits. *)
(* The value is accumulated modulo 2^32, as two 16-bit halves.  Literals   *)
(* beyond the range of long, where strtol itself saturates, are outside    *)
(* the model.                                                              *)
(***************************************************************************)
Half == 65536

RECURSIVE Accumulate(_, _, _, _, _)
Accumulate(text, q, base, hi, lo) ==
  IF q > Len(text) \/ DigitVal(text[q], base) < 0
    THEN (IF hi >= Half \div 2 THEN hi - Half ELSE hi) * Half + lo
  ELSE LET low == lo * base + DigitVal(text[q], base)
       IN  Accumulate(text, q + 1, base,
                      (hi * base + low \div Half) % Half, low % Half)

strtol(text) ==
  LET neg == text[1] = "-"
      b   == IF neg THEN 2 ELSE 1
      hex == /\ b + 2 <= Len(text) /\ text[b] = "0"
             /\ text[b + 1] \in {"x", "X"} /\ DigitVal(text[b + 2], 16) >= 0
      mag == IF hex THEN Accumulate(text, b + 2, 16, 0, 0)
             ELSE IF text[b] = "0" THEN Accumulate(text, b + 1, 8, 0, 0)
             ELSE Accumulate(text, b, 10, 0, 0)
  IN  IF neg THEN NegWrap(mag) ELSE mag

\* The operator regex of isOperation, matched against the whole text.
isOperation(text) ==
  \/ Len(text) = 1 /\ text[1] \in {"-", "+", "*", "/", "%", "&", "|", "!",
                                   "=", "<", ">"}
  \/ text \in { <<"<", ">">>, <<"<", "=">>, <<">", "=">> }

interpOperation_swapped(m, text) ==
  IF text[1] = "!"
  THEN IF Underflow(m, 1) THEN PopError(m)
       ELSE {next(push([m EXCEPT !.d = Pop(@)], Bool(Top(m.d) = 0)))}
  ELSE IF Underflow(m, 2) THEN PopError(m)
  ELSE LET l  == m.d[Len(m.d)]
           r  == m.d[Len(m.d) - 1]
           m2 == [m EXCEPT !.d = SubSeq(@, 1, Len(@) - 2)]
           res == BinaryResult(text, l, r)
       IN  IF res.bad
           THEN Error(m2, "malformed binary operator")
           ELSE IF res.trap
                THEN {next(push(Undefined(m2), v)) : v \in res.vals}
                       \cup {Crash(m2)}
           ELSE {next(push(m2, v)) : v \in res.vals}

interpOperation(m, text) ==
  IF text[1] = "!"
  THEN IF Underflow(m, 1) THEN PopError(m)
       ELSE {next(push([m EXCEPT !.d = Pop(@)], Bool(Top(m.d) = 0)))}
  ELSE IF Underflow(m, 2) THEN PopError(m)
  ELSE LET r  == m.d[Len(m.d)]
           l  == m.d[Len(m.d) - 1]
           m2 == [m EXCEPT !.d = SubSeq(@, 1, Len(@) - 2)]
           res == BinaryResult(text, l, r)
       IN  IF res.bad
           THEN Error(m2, "malformed binary operator")
           ELSE IF res.trap
                THEN {next(push(Undefined(m2), v)) : v \in res.vals}
                       \cup {Crash(m2)}
           ELSE {next(push(m2, v)) : v \in res.vals}

(***************************************************************************)
(* String literals and the print words.                                    *)
(***************************************************************************)
\* The body of interpString's loop for the character at `it`, on data
\* stack d.
StringChar(d, c) ==
  IF c = "\\"
  THEN IF d # << >>                               \* m.pop(c) succeeded
       THEN LET p == Top(d)
                rest == Pop(d)
            IN  CASE p = Ord("n")  -> Append(rest, 10)
                  [] p = Ord("r")  -> Append(rest, 13)
                  [] p = Ord("\"") -> Append(rest, Ord("\""))
                  [] p = Ord("\\") -> Append(rest, Ord("\\"))
                  [] p = Ord("t")  -> Append(rest, 9)
                  [] OTHER         -> rest
       ELSE Append(d, Ord("\\"))
  ELSE Append(d, Ord(c))

\* A loop that pushes the characters from the first to the last.
StringLoop_forward(d, lit, it) ==
  d \o [k \in 1..(it - 1) |-> Ord(lit[k + 1])]

\* The loop of interpString: it runs from end - 2 down to start + 1.
RECURSIVE StringLoop(_, _, _)
StringLoop(d, lit, it) ==
  IF it = 1 THEN d
  ELSE StringLoop(StringChar(d, lit[it]), lit, it - 1)

\* interpString(m, start, end), lit being the text from start to end.
interpString(m, lit) ==
  [m EXCEPT !.d = StringLoop(Append(m.d, 0), lit, Len(lit) - 1)]

\* (char)c as the byte written.
Byte(c) == c % 256

\* A .s loop that stops at the 0 without taking it off the stack.
RECURSIVE Drain_keeps_zero(_)
Drain_keeps_zero(m) ==
  IF m.d = << >>
  THEN Error(m, "no null terminator found before end of stack reached")
  ELSE LET c  == Top(m.d)
           m2 == [m EXCEPT !.d = Pop(@)]
       IN  IF c = 0 THEN {next(m)}
           ELSE Drain_keeps_zero([m2 EXCEPT !.out = Append(@, Byte(c))])

\* The .s loop of the print rule: pops and writes up to the first 0.
RECURSIVE Drain(_)
Drain(m) ==
  IF m.d = << >>
  THEN Error(m, "no null terminator found before end of stack reached")
  ELSE LET c  == Top(m.d)
           m2 == [m EXCEPT !.d = Pop(@)]
       IN  IF c = 0 THEN {next(m2)}
           ELSE Drain([m2 EXCEPT !.out = Append(@, Byte(c))])

\* The decimal digits of n > 0, as bytes.
RECURSIVE Digits(_)
Digits(n) ==
  IF n < 10 THEN << Ord(DecDigits[n + 1]) >>
  ELSE Append(Digits(n \div 10), Ord(DecDigits[(n % 10) + 1]))

\* std::cout << n << std::endl.
Decimal(n) ==
  (IF n = IntMin THEN << Ord("-") >> \o Digits(IntMax \div 10) \o << Ord("8") >>
   ELSE IF n < 0 THEN << Ord("-") >> \o Digits(-n)
   ELSE Digits(n)) \o << 10 >>

\* What stands in cout for the dump of debug(): one mark, no byte.
DumpMark == 256

\* A print rule whose ."..." pushes the string and leaves it on the stack.
interpPrint_no_drain(m, text) ==
  IF Len(text) > 1 /\ text[2] = "\""
    THEN {next(interpString(m, Tail(text)))}
  ELSE IF Len(text) > 1 /\ text[2] = "s" THEN Drain(m)
  ELSE {next(m)}

\* The interpret behaviour of a print token.
interpPrint(m, text) ==
  IF Len(text) > 1
  THEN IF text[2] = "\"" THEN Drain(interpString(m, Tail(text)))
       ELSE IF text[2] = "d" THEN {next([m EXCEPT !.out = Append(@, DumpMark)])}
       ELSE IF text[2] = "c"
            THEN IF Underflow(m, 1) THEN PopError(m)
                 ELSE {next([m EXCEPT !.d = Pop(@),
                                      !.out = Append(@, Byte(Top(m.d)))])}
       ELSE Drain(m)
  ELSE IF Underflow(m, 1) THEN PopError(m)
       ELSE {next([m EXCEPT !.d = Pop(@), !.out = @ \o Decimal(Top(m.d))])}

(***************************************************************************)
(* toLower and isTokenWithId.                                              *)
(***************************************************************************)
\* toLower: std::transform reads [begin, end) and writes the lowered
\* characters from s.end() on, past the characters of s; the string
\* returned is s, whose size and first characters no write changed.
toLower(s) ==
  LET n   == Len(s)
      buf == [k \in 1..(2 * n) |-> IF k <= n THEN s[k] ELSE LowerChar(s[k - n])]
  IN  SubSeq(buf, 1, n)

\* Whether the writes of toLower leave the std::string object (they stay in
\* its in-object buffer for up to SsoBuf \div 2 characters): undefined
\* behaviour that may end the process.
toLowerOverruns(s) == 2 * Len(s) > SsoBuf

isTokenWithId(id, tok) ==
  IF tok.kind # "identifier" THEN FALSE ELSE toLower(tok.text) = id

(***************************************************************************)
(* The intrinsics.                                                         *)
(***************************************************************************)
\* The keys of the intrinsics table.
I_dup == <<"d","u","p">>
I_swap == <<"s","w","a","p">>
I_over == <<"o","v","e","r">>
I_rot == <<"r","o","t">>
I_drop == <<"d","r","o","p">>
I_clear == <<"c","l","e","a","r">>
I_if == <<"i","f">>
I_else == <<"e","l","s","e">>
I_then == <<"t","h","e","n">>
I_branch == <<"b","r","a","n","c","h">>
I_qbranch == <<"?","b","r","a","n","c","h">>
I_to_r == <<">","r">>
I_r_from == <<"r",">">>
I_r_fetch == <<"r","@">>
I_rdrop == <<"r","d","r","o","p">>
I_rclear == <<"r","c","l","e","a","r">>
I_cr == <<"c","r">>
I_exit == <<"e","x","i","t">>

IntrinsicNames ==
  {I_dup, I_swap, I_over, I_rot, I_drop, I_clear, I_if, I_else, I_then,
   I_branch, I_qbranch, I_to_r, I_r_from, I_r_fetch, I_rdrop, I_rclear,
   I_cr, I_exit}

\* An exit that jumps to whatever address it popped.
exit_unchecked(m) ==
  IF m.r = << >>
  THEN Error(m, "tried to exit from a subroutine with an empty return stack.")
  ELSE {abranch([m EXCEPT !.r = Pop(@)], Top(m.r))}

\* exit(): rpop(rip), the range check, abranch(rip).
exit(m) ==
  IF m.r = << >>
  THEN Error(m, "tried to exit from a subroutine with an empty return stack.")
  ELSE LET rip == Top(m.r)
           m2  == [m EXCEPT !.r = Pop(@)]
       IN  IF rip < 0 \/ rip > end_addr
           THEN Error(m2, "exit from subroutine to invalid address")
           ELSE {abranch(m2, rip)}

isBranchTargetKind(kind) == kind \in {"number", "identifier"}

\* A branch that finds its Identifier target among the words of the
\* dictionary when no label has the name.
branch_to_target_words(m, do_branch) ==
  LET m1 == next(m)
  IN  IF atEnd(m1) THEN {Crash(m1)}
      ELSE IF ~do_branch THEN {next(m1)}
      ELSE IF Tok(m1.ip).kind = "number"
           THEN rbranch(m1, strtol(Tok(m1.ip).text))
      ELSE IF Tok(m1.ip).text \in DOMAIN m1.labels
           THEN {[m1 EXCEPT !.ip = m1.labels[Tok(m1.ip).text]]}
      ELSE IF Tok(m1.ip).text \in DOMAIN m1.dict
           THEN {[m1 EXCEPT !.ip = m1.dict[Tok(m1.ip).text]]}
      ELSE Error(m1, "tried to branch to nonexistent label")

\* branch_to_target.  The assertion reads !atEnd() || isBranchTargetToken:
\* a token in the stream passes it whatever its kind, and at the end of the
\* stream the end iterator is dereferenced, there and below: the token read
\* then may show any kind and any text, or the read may end the process.
branch_to_target(m, do_branch) ==
  LET m1 == next(m)
  IN  IF ~atEnd(m1)
      THEN IF ~do_branch THEN {next(m1)}
           ELSE IF Tok(m1.ip).kind = "number"
                THEN rbranch(m1, strtol(Tok(m1.ip).text))
           ELSE IF Tok(m1.ip).text \in DOMAIN m1.labels
                THEN {[m1 EXCEPT !.ip = m1.labels[Tok(m1.ip).text]]}
           ELSE Error(m1, "tried to branch to nonexistent label")
      ELSE {Crash(m1)} \cup
           UNION { IF ~isBranchTargetKind(gk)
                   THEN Error(m1, "branch word without target.")
                   ELSE IF ~do_branch THEN {next(Undefined(m1))}
                   ELSE IF gk = "number"
                        THEN {[Undefined(m1) EXCEPT !.ip = a] : a \in 0..end_addr}
                   ELSE {[Undefined(m1) EXCEPT !.ip = m1.labels[k]] :
                           k \in DOMAIN m1.labels}
                        \cup Error(m1, "tried to branch to nonexistent label")
                 : gk \in Kinds }

\* A scan for "if" that takes no account of nesting: it stops at the first
\* `else` or `then`.
RECURSIVE IfScan_flat(_, _)
IfScan_flat(j, counter) ==
  IF j = end_addr THEN end_addr
  ELSE IF isTokenWithId(I_else, Tok(j)) \/ isTokenWithId(I_then, Tok(j)) THEN j
  ELSE IfScan_flat(j + 1, counter)

\* The predicate of "if" run along the stream by branchTo: the address it
\* stops at, end_addr when it finds none.
RECURSIVE IfScan(_, _)
IfScan(j, counter) ==
  IF j = end_addr THEN end_addr
  ELSE LET tok == Tok(j)
       IN  IF counter = 0 /\ (isTokenWithId(I_else, tok) \/ isTokenWithId(I_then, tok))
           THEN j
           ELSE LET c1 == IF isTokenWithId(I_if, tok) THEN counter + 1 ELSE counter
                    c2 == IF c1 # 0 /\ isTokenWithId(I_then, tok) THEN c1 - 1 ELSE c1
                IN  IfScan(j + 1, c2)

\* The predicate of "else" run along the stream by branchTo.
RECURSIVE ElseScan(_, _)
ElseScan(j, counter) ==
  IF j = end_addr THEN end_addr
  ELSE LET tok == Tok(j)
       IN  IF counter = 0 /\ isTokenWithId(I_then, tok)
           THEN j
           ELSE LET c1 == IF isTokenWithId(I_if, tok) THEN counter + 1 ELSE counter
                    c2 == IF isTokenWithId(I_then, tok) THEN c1 - 1 ELSE c1
                IN  ElseScan(j + 1, c2)

\* Whether a scan over [from, to] calls toLower on a name it overruns.
ScanOverruns(from, to) ==
  \E j \in from..to : /\ j < end_addr
                      /\ Tok(j).kind = "identifier"
                      /\ toLowerOverruns(Tok(j).text)

intrinsic_if(m) ==
  IF Underflow(m, 1) THEN PopError(m)
  ELSE LET c  == Top(m.d)
           m2 == [m EXCEPT !.d = Pop(@)]
       IN  IF c # 0 THEN {next(m2)}
           ELSE LET m3 == next(m2)
                    j  == IfScan(m3.ip, 0)
                    m4 == [m3 EXCEPT !.ip = j]
                IN  (IF j = end_addr
                     THEN Error(m4, "'if' with no corresponding 'then'")
                     ELSE {next(m4)})
                    \cup (IF ScanOverruns(m3.ip, j) THEN {Crash(m3)} ELSE {})

intrinsic_else(m) ==
  LET m1 == next(m)
      j  == ElseScan(m1.ip, 0)
      m2 == [m1 EXCEPT !.ip = j]
  IN  (IF j = end_addr
       THEN Error(m2, "'else' with no corresponding 'then'")
       ELSE {next(m2)})
      \cup (IF ScanOverruns(m1.ip, j) THEN {Crash(m1)} ELSE {})

\* The behaviour the intrinsics table holds under key id.
\* A ?branch that branches when the popped value is zero.
qbranch_on_zero(m) ==
  IF Underflow(m, 1) THEN PopError(m)
  ELSE branch_to_target([m EXCEPT !.d = Pop(@)], Top(m.d) = 0)

\* The behaviour of "?branch": branch_to_target(m, m.pop() != 0).
qbranch(m) ==
  IF Underflow(m, 1) THEN PopError(m)
  ELSE branch_to_target([m EXCEPT !.d = Pop(@)], Top(m.d) # 0)

\* A rot that brings the top element under the two beneath it.
Rotated_backward(d) ==
  LET n == Len(d)
  IN  SubSeq(d, 1, n - 3) \o << d[n], d[n - 2], d[n - 1] >>

\* The data stack after rot's three pops (c, b, a) and its pushes of b, c
\* and a.
Rotated(d) ==
  LET n == Len(d)
  IN  SubSeq(d, 1, n - 3) \o << d[n - 1], d[n], d[n - 2] >>

run_intrinsic(m, id) ==
  LET n == Len(m.d)
  IN  CASE id = I_dup ->
             IF n < 1 THEN Error(m, "tried to peek empty stack")
             ELSE {next(push(m, Top(m.d)))}
        [] id = I_swap ->
             IF Underflow(m, 2) THEN PopError(m)
             ELSE {next([m EXCEPT !.d = SubSeq(@, 1, n - 2)
                                          \o << m.d[n], m.d[n - 1] >>])}
        [] id = I_over ->
             IF Underflow(m, 2) THEN PopError(m)
             ELSE {next([m EXCEPT !.d = Append(@, m.d[n - 1])])}
        [] id = I_rot ->
             IF Underflow(m, 3) THEN PopError(m)
             ELSE {next([m EXCEPT !.d = Rotated(@)])}
        [] id = I_drop ->
             IF Underflow(m, 1) THEN PopError(m)
             ELSE {next([m EXCEPT !.d = Pop(@)])}
        [] id = I_clear -> {next([m EXCEPT !.d = << >>])}
        [] id = I_if -> intrinsic_if(m)
        [] id = I_else -> intrinsic_else(m)
        [] id = I_then -> {next(m)}
        [] id = I_branch -> branch_to_target(m, TRUE)
        [] id = I_qbranch -> qbranch(m)
        [] id = I_to_r ->
             IF Underflow(m, 1) THEN PopError(m)
             ELSE {next([m EXCEPT !.d = Pop(@), !.r = Append(@, Top(m.d))])}
        [] id = I_r_from ->
             IF m.r = << >>
             THEN Error(m, "tried to pop from empty return stack")
             ELSE {next([m EXCEPT !.r = Pop(@), !.d = Append(@, Top(m.r))])}
        [] id = I_r_fetch ->
             IF m.r = << >>
             THEN Error(m, "tried to peek empty return stack")
             ELSE {next(push(m, Top(m.r)))}
        [] id = I_rdrop ->
             IF m.r = << >>
             THEN Error(m, "tried to pop from empty return stack")
             ELSE {next([m EXCEPT !.r = Pop(@)])}
        [] id = I_rclear -> {next([m EXCEPT !.r = << >>])}
        [] id = I_cr -> {next([m EXCEPT !.out = Append(@, 10)])}
        [] id = I_exit -> exit(m)

(***************************************************************************)
(* The interpret behaviours of the token table.                            *)
(***************************************************************************)
\* machine_state::intrinsic: the table is searched for toLower(id).  The
\* result is empty when the table holds no such key (intrinsic returns
\* false).
intrinsic(m, id) ==
  IF toLower(id) \in IntrinsicNames THEN run_intrinsic(m, toLower(id)) ELSE {}

\* A dictionary that is searched only for names the intrinsics table lacks.
CallsWord_after_intrinsics(m, text) ==
  text \in DOMAIN m.dict /\ text \notin IntrinsicNames

\* Whether the identifier rule finds text in the dictionary, which it
\* searches before the intrinsics.
CallsWord(m, text) == text \in DOMAIN m.dict

\* A call that pushes the address of the call itself.
call_pushes_site(m, text) == [rpush(m, m.ip) EXCEPT !.ip = m.dict[text]]

\* The call of a word of the dictionary: next(), rpush(ip()), and
\* curr_token is the dictionary's value.
call(m, text) ==
  LET m1 == next(m)
  IN  [rpush(m1, m1.ip) EXCEPT !.ip = m.dict[text]]

\* The interpret behaviour of an identifier token.
interpIdentifier(m, text) ==
  IF isOperation(text) THEN interpOperation(m, text)
  ELSE IF CallsWord(m, text) THEN {call(m, text)}
  ELSE (IF toLower(text) \in IntrinsicNames THEN intrinsic(m, text)
        ELSE Error(m, "no word named"))
       \cup (IF toLowerOverruns(text) THEN {Crash(m)} ELSE {})

\* A scan of ':' that takes a ':' inside the body as the start of a nested
\* definition and stops at the ';' that closes the outer one.
RECURSIVE NestedEnd(_, _)
NestedEnd(a, depth) ==
  IF a = end_addr THEN a
  ELSE IF Tok(a).kind = "end_definition"
       THEN (IF depth = 0 THEN a ELSE NestedEnd(a + 1, depth - 1))
  ELSE IF Tok(a).kind = "start_definition" THEN NestedEnd(a + 1, depth + 1)
  ELSE NestedEnd(a + 1, depth)

DefinitionEnd_nested(a) == NestedEnd(a, 0)

\* The address the scan of ':' stops at: the first end_definition at or
\* after a, end_addr when there is none.
RECURSIVE DefinitionEnd(_)
DefinitionEnd(a) ==
  IF a = end_addr \/ Tok(a).kind = "end_definition" THEN a
  ELSE DefinitionEnd(a + 1)

\* A ':' that enters the address of the name into the dictionary.
interpStartDefinition_at_name(m) ==
  LET m1 == next(m)
  IN  IF atEnd(m1) \/ Tok(m1.ip).kind # "identifier"
      THEN Error(m1, "expecting identifier")
      ELSE LET m3 == [m1 EXCEPT !.ip = DefinitionEnd(m1.ip + 1)]
           IN  IF atEnd(m3) THEN Error(m3, "expecting ':'")
               ELSE {[next(m3) EXCEPT !.dict = Put(@, Tok(m1.ip).text, m1.ip)]}

\* The interpret behaviour of ':'.  When the scan reaches the end of the
\* stream, the test of curr_token->kind dereferences the end iterator: the
\* kind read is any kind, end_definition included.
interpStartDefinition(m) ==
  LET m1 == next(m)
  IN  IF atEnd(m1) \/ Tok(m1.ip).kind # "identifier"
      THEN Error(m1, "expecting identifier")
      ELSE LET id    == Tok(m1.ip).text
               m2    == next(m1)
               start == m2.ip
               m3    == [m2 EXCEPT !.ip = DefinitionEnd(start)]
               def   == [next(m3) EXCEPT !.dict = Put(@, id, start)]
           IN  IF atEnd(m3)
               THEN Error(m3, "expecting ':'") \cup {Undefined(def)}
               ELSE {def}

\* The name of a label token: the text between '[' and ']'.
LabelName(text) == SubSeq(text, 2, Len(text) - 1)

\* The interpret behaviour of a label token: next(), then the entry.
interpLabel(m, text) ==
  LET m1 == next(m)
  IN  {[m1 EXCEPT !.labels = Put(@, LabelName(text), m1.ip)]}

\* The constructor's loop over the stream: every label token's name is
\* mapped to the token itself, a later label replacing an earlier one of
\* the same name.
RECURSIVE LabelPrePass(_, _, _)
LabelPrePass(ts, a, map) ==
  IF a = Len(ts) THEN map
  ELSE LabelPrePass(ts, a + 1,
                    IF ts[a + 1].kind = "label"
                    THEN Put(map, LabelName(ts[a + 1].text), a)
                    ELSE map)

(***************************************************************************)
(* Programs.  A program is a sequence of words; its source text is the     *)
(* words joined by single spaces.                                          *)
(***************************************************************************)
W_0 == <<"0">>
W_1 == <<"1">>
W_2 == <<"2">>
W_3 == <<"3">>
W_7 == <<"7">>
W_41 == <<"4","1">>
W_m1 == <<"-","1">>
W_m3 == <<"-","3">>
W_max == <<"2","1","4","7","4","8","3","6","4","7">>
W_colon == <<":">>
W_semi == <<";">>
W_dot == <<".">>
W_minus == <<"-">>
W_plus == <<"+">>
W_gt == <<">">>
W_slash == <<"/">>
W_percent == <<"%">>
W_star == <<"*">>
W_amp == <<"&">>
W_pipe == <<"|">>
W_bang == <<"!">>
W_eq == <<"=">>
W_ne == <<"<",">">>
W_lt == <<"<">>
W_le == <<"<","=">>
W_ge == <<">","=">>
W_a == <<"a">>
W_f == <<"f">>
W_g == <<"g">>
W_foo == <<"f","o","o">>
W_Foo == <<"F","o","o">>
W_count == <<"c","o","u","n","t">>
W_top == <<"t","o","p">>
W_label_a == <<"[","a","]">>
W_label_colon == <<"[",":","]">>
W_label_top == <<"[","t","o","p","]">>
W_DUP == <<"D","U","P">>
W_IF == <<"I","F">>
W_THEN == <<"T","H","E","N">>
W_Else == <<"E","l","s","e">>
W_long == <<"a","b","c","d","e","f","g","h","i">>
W_comment == <<"(","c",")">>
W_comment_sp == <<"("," ","c"," ",")">>
W_print_yes == <<".","\"","y","e","s","\"">>
W_print_no == <<".","\"","n","o","\"">>
W_str_hi == <<"\"","h","i","\"">>
W_dot_s == <<".","s">>
W_dot_c == <<".","c">>
W_dot_d == <<".","d">>
W_print_esc == <<".","\"","h","\\","n","i","\"">>

RECURSIVE Join(_)
Join(ws) ==
  IF ws = << >> THEN << >>
  ELSE IF Len(ws) = 1 THEN ws[1]
  ELSE ws[1] \o << " " >> \o Join(Tail(ws))

\* The end-to-end scenarios and the programs of the quick reference.
Scenarios ==
  { << W_2, W_1, W_minus, W_dot >>,
    << W_colon, W_foo, W_1, W_plus, W_semi, W_41, W_foo, W_dot >>,
    << W_1, I_if, W_print_yes, I_else, W_print_no, I_then, I_cr >>,
    << W_0, I_if, W_print_yes, I_else, W_print_no, I_then, I_cr >>,
    << W_colon, W_count, I_dup, W_dot, W_1, W_minus, I_dup, W_0, W_gt, I_if,
       I_branch, W_count, I_then, I_drop, W_semi, W_3, W_count >>,
    << W_label_top, W_1, W_dot, I_branch, W_top >>,
    << W_print_esc, I_cr >>,
    << W_str_hi, W_dot_s, W_7, W_dot_c, W_dot_d >> }

\* Programs with a comment between two tokens, and the same programs
\* without it.
CommentPrograms ==
  { << W_1, W_comment, W_2, W_dot >>,
    << W_1, W_2, W_dot >>,
    << I_branch, W_2, W_comment_sp, W_1, W_dot >>,
    << I_branch, W_2, W_1, W_dot >>,
    << I_branch, W_comment, W_1, W_7, W_dot >>,
    << I_branch, W_1, W_7, W_dot >>,
    << W_colon, W_comment_sp, W_foo, W_7, W_semi, W_foo, W_dot >>,
    << W_colon, W_foo, W_7, W_semi, W_foo, W_dot >>,
    << W_colon, W_foo, W_comment, W_7, W_semi, W_foo, W_dot >> }

\* Programs that spell an intrinsic in another case.
CasePrograms ==
  { << W_1, W_DUP, W_dot, W_dot >>,
    << W_1, I_dup, W_dot, W_dot >>,
    << W_1, W_IF, W_7, W_dot, W_THEN >>,
    << W_1, I_if, W_7, W_dot, I_then >>,
    << W_0, I_if, W_7, W_dot, W_THEN, W_3, W_dot >>,
    << W_0, I_if, W_7, W_dot, W_Else, W_3, W_dot, I_then >>,
    << W_1, I_if, W_7, W_dot, W_Else, W_3, W_dot, I_then >>,
    << W_colon, W_foo, W_7, W_semi, W_Foo, W_dot >>,
    << W_colon, W_long, W_7, W_semi, W_long, W_dot >>,
    << I_branch, W_long >> }

\* Programs that define a word named as an intrinsic or an operator is.
ShadowPrograms ==
  { << W_colon, I_dup, W_7, W_semi, W_1, I_dup, W_dot, W_dot >>,
    << W_1, I_dup, W_colon, I_dup, W_7, W_semi, W_dot, W_dot >>,
    << W_colon, I_drop, W_semi, W_1, I_drop, W_dot >>,
    << W_colon, W_plus, W_7, W_semi, W_1, W_2, W_plus, W_dot, W_dot >>,
    << W_colon, I_exit, W_3, W_semi, W_colon, W_f, I_exit, W_7, W_semi, W_f,
       W_dot >> }

\* Programs that divide.
DivisionPrograms ==
  { << l, r, op, W_dot, W_7, W_dot >> :
      l \in {W_7, W_0, W_m3}, r \in {W_0, W_2, W_m1}, op \in {W_slash, W_percent} }

\* Programs that visit a label and branch to it, before or after.
\* Every operator on operands of every sign, over a deeper element, and on
\* a stack with too few elements.
BinaryOperators ==
  { W_plus, W_minus, W_star, W_slash, W_percent, W_amp, W_pipe,
    W_eq, W_ne, W_lt, W_le, W_gt, W_ge }

OperatorPrograms ==
  { << W_3, l, r, op, W_dot >> :
      l \in {W_0, W_1, W_2, W_m3, W_7, W_max},
      r \in {W_0, W_1, W_2, W_m3, W_7, W_max}, op \in BinaryOperators }
    \cup { << W_7, x, W_bang, W_dot >> : x \in {W_0, W_1, W_m3} }
    \cup { << l, op >> : l \in {W_1}, op \in BinaryOperators \cup {W_bang} }
    \cup { << W_bang >> }

\* Each stack word once, twice and three times in a row, on data stacks of
\* no, one, two and four elements.
StackWords == { I_dup, I_drop, I_swap, I_over, I_rot }

StackPrograms ==
  { d \o b \o << W_dot >> :
      d \in { << >>, << W_1 >>, << W_1, W_2 >>, << W_7, W_1, W_2, W_3 >> },
      b \in UNION { { << w >>, << w, w >>, << w, w, w >> } : w \in StackWords } }

\* branch and ?branch (on zero and on nonzero values) before tokens of
\* every kind, with and without a label of the target's text.
BranchPrograms ==
  { << c, I_qbranch, t, W_7, W_dot >> \o e :
      c \in {W_0, W_2, W_m3},
      t \in {W_1, W_2, W_m3, W_a, W_str_hi, W_colon},
      e \in { << >>, << W_label_a, W_3, W_dot >>, << W_label_colon, W_3, W_dot >> } }
    \cup { << I_branch, t, W_7, W_dot >> \o e :
      t \in {W_str_hi, W_colon, W_semi, W_print_yes, W_label_a, W_comment},
      e \in { << >>, << W_label_colon, W_3, W_dot >> } }
    \cup { << W_0, I_qbranch >>, << W_2, I_qbranch >>, << I_qbranch, W_1 >> }

\* A bare .s on every data stack of up to three values, with and without
\* a 0 among them.
DrainPrograms ==
  { d \o << W_dot_s, W_dot_d >> :
      d \in UNION { [1..n -> {W_0, W_7, W_m3}] : n \in 0..3 } }

LabelPrograms ==
  { << W_1, W_label_a, W_2, I_branch, W_a >>,
    << I_branch, W_a, W_1, W_label_a, W_2, W_dot >>,
    << W_0, W_label_a, W_1, W_plus, I_dup, W_2, W_gt, I_qbranch, W_3,
       I_branch, W_a, W_dot >>,
    << W_label_a, W_label_a, I_branch, W_a >>,
    << W_1, W_label_a >> }

\* Programs that call words from words.
CallPrograms ==
  { << W_colon, W_f, W_1, W_semi, W_colon, W_g, W_f, W_f, W_semi, W_g >>,
    << W_colon, W_f, I_dup, I_if, W_1, W_minus, W_f, I_then, W_semi, W_1, W_f >>,
    << W_colon, W_f, W_7, I_exit, W_3, W_semi, W_f, W_f, W_dot >>,
    << W_colon, W_f, W_7, I_to_r, I_rdrop, W_semi, W_1, W_f, W_dot >>,
    << W_colon, W_f, W_semi, W_f, W_f >>,
    << W_colon, W_f, W_1, W_dot, W_f, W_semi, W_f >>,
    << W_7, I_to_r, W_colon, W_f, W_1, W_semi, W_f, I_r_from, W_dot >> }

\* Programs that define words: with an empty body, with a ':' in the
\* body, twice under one name, and without the closing ';'.
DefinitionPrograms ==
  { << W_colon, W_f, W_semi, W_f, W_7, W_dot >>,
    << W_colon, W_f, W_colon, W_g, W_7, W_semi, W_g, W_dot >>,
    << W_colon, W_f, W_1, W_semi, W_colon, W_f, W_2, W_semi, W_f, W_dot >>,
    << W_7, W_colon, W_f, W_1, W_dot, W_semi, W_dot >>,
    << W_colon, W_f, W_1 >>,
    << W_colon, W_7, W_semi >> }

\* The payloads of up to MaxPayload characters out of a letter, the letter
\* of an escape and the backslash.
Payloads == UNION { [1..n -> {"a", "n", "\\"}] : n \in 0..MaxPayload }

\* The String token and the Print token of a payload.
StringWord(payload) == << "\"" >> \o payload \o << "\"" >>
PrintWord(payload) == << ".", "\"" >> \o payload \o << "\"" >>

\* Programs that push or print a string literal over an empty data stack
\* and over one that holds values, a 0 among them.
StringPrograms ==
  { d \o t \o << W_dot_d >> :
      d \in { << >>, << W_7 >>, << W_3, W_0, W_7 >> },
      t \in { << StringWord(s), W_dot_s >> : s \in Payloads }
             \cup { << PrintWord(s) >> : s \in Payloads } }

\* The well-nested conditionals: a condition, `if`, a body, perhaps `else`
\* and a body, `then`.
Conditional(conds, bodies) ==
  { << c, I_if >> \o t \o << I_then >> : c \in conds, t \in bodies }
    \cup { << c, I_if >> \o t \o << I_else >> \o f \o << I_then >> :
             c \in conds, t \in bodies, f \in bodies }

Flat == { << >>, << W_7 >> }
Nested == Flat \cup Conditional({W_0, W_1}, Flat)
            \cup { << W_3 >> \o b \o << W_3 >> : b \in Conditional({W_1}, { << >> }) }
Deep == { << c, I_if >> \o b \o << I_then >> :
            c \in {W_0, W_1}, b \in Conditional({W_0, W_1}, Flat) }

IfPrograms ==
  { b \o << W_2 >> :
      b \in Conditional({W_0, W_1}, Nested)
              \cup { << c, I_if >> \o t \o << I_else >> \o f \o << I_then >> :
                       c \in {W_0, W_1}, t \in Deep, f \in Flat } }

\* The words the short programs are made of.
CoreWords ==
  { W_1, W_0, W_m3, W_max, I_branch, I_qbranch, W_label_a, W_a,
    W_colon, W_semi, I_to_r, I_exit }

\* Every program of up to MaxLen words of CoreWords.
ShortPrograms == UNION { [1..n -> CoreWords] : n \in 0..MaxLen }

Programs ==
  Scenarios \cup CommentPrograms \cup CasePrograms \cup ShadowPrograms
    \cup DivisionPrograms \cup LabelPrograms \cup CallPrograms
    \cup DefinitionPrograms \cup StringPrograms \cup OperatorPrograms
    \cup StackPrograms \cup BranchPrograms \cup DrainPrograms
    \cup IfPrograms \cup ShortPrograms

(***************************************************************************)
(* The specification: main() lexes the source and constructs the machine,  *)
(* run() interprets the token at curr_token until it is the end.           *)
(***************************************************************************)
Init ==
  /\ src \in { Join(p) : p \in Programs }
  /\ token_stream = lexTokens(src)
  /\ curr_token = 0
  /\ dstack = << >>
  /\ rstack = << >>
  /\ dictionary = EmptyMap
  /\ labels = LabelPrePass(token_stream, 0, EmptyMap)
  /\ cout = << >>
  /\ status = "running"
  /\ error_msg = ""
  /\ exit_code = -1
  /\ steps = 0
  /\ visited = {}
  /\ calls = << >>
  /\ returned = << >>
  /\ ub = 0
  /\ pre = [Machine EXCEPT !.ip = -1]
  /\ pre2 = [Machine EXCEPT !.ip = -1]

\* The loop of run() is at a token of this kind.
At(kind) ==
  /\ status = "running"
  /\ curr_token < end_addr
  /\ Tok(curr_token).kind = kind
  /\ steps < MaxSteps

\* The token at curr_token is an identifier the dictionary holds and no
\* operator: interpreting it is a call.
AtCall ==
  /\ curr_token < end_addr
  /\ Tok(curr_token).kind = "identifier"
  /\ ~isOperation(Tok(curr_token).text)
  /\ CallsWord(Machine, Tok(curr_token).text)

\* The token at curr_token is ';', or `exit` as the intrinsic.
AtExit ==
  /\ curr_token < end_addr
  /\ \/ Tok(curr_token).kind = "end_definition"
     \/ /\ Tok(curr_token).kind = "identifier"
        /\ Tok(curr_token).text = I_exit
        /\ ~CallsWord(Machine, I_exit)

\* The return stack is what the innermost open call left: the body has
\* kept it balanced.
Balanced ==
  /\ calls # << >>
  /\ rstack = Append(Top(calls).r, Top(calls).ret)

\* The machine becomes m2.
Become(m2) ==
  /\ m2.ub <= MaxUB
  /\ ub' = m2.ub
  /\ curr_token' = m2.ip
  /\ dstack' = m2.d
  /\ rstack' = m2.r
  /\ dictionary' = m2.dict
  /\ labels' = m2.labels
  /\ cout' = m2.out
  /\ status' = m2.st
  /\ error_msg' = m2.msg
  /\ exit_code' = m2.code
  /\ pre' = Machine
  /\ pre2' = pre
  /\ steps' = steps + 1
  /\ visited' = IF curr_token < end_addr THEN visited \cup {curr_token}
                                          ELSE visited
  /\ calls' = IF AtCall
                THEN Append(calls, [site |-> curr_token, ret |-> curr_token + 1,
                                    entry |-> dictionary[Tok(curr_token).text],
                                    r |-> rstack, d |-> dstack])
              ELSE IF AtExit /\ Balanced THEN Pop(calls)
              ELSE calls
  /\ returned' = IF AtExit /\ Balanced THEN << Top(calls) >> ELSE << >>
  /\ UNCHANGED << src, token_stream >>

InterpComment ==
  /\ At("comment")
  /\ Become(next(Machine))

InterpStartDefinition ==
  /\ At("start_definition")
  /\ \E m2 \in interpStartDefinition(Machine) : Become(m2)

InterpEndDefinition ==
  /\ At("end_definition")
  /\ \E m2 \in exit(Machine) : Become(m2)

InterpLabel ==
  /\ At("label")
  /\ \E m2 \in interpLabel(Machine, Tok(curr_token).text) : Become(m2)

InterpPrint ==
  /\ At("print")
  /\ \E m2 \in interpPrint(Machine, Tok(curr_token).text) : Become(m2)

InterpNumber ==
  /\ At("number")
  /\ Become(next(push(Machine, strtol(Tok(curr_token).text))))

InterpString ==
  /\ At("string")
  /\ Become(next(interpString(Machine, Tok(curr_token).text)))

InterpIdentifier ==
  /\ At("identifier")
  /\ \E m2 \in interpIdentifier(Machine, Tok(curr_token).text) : Become(m2)

\* run() leaves its loop and returns the top of the data stack, 0 when it
\* is empty; main returns it.
RunReturns ==
  /\ status = "running"
  /\ curr_token = end_addr
  /\ Become([Machine EXCEPT !.st = "exited",
                            !.code = IF dstack = << >> THEN 0 ELSE Top(dstack)])

Next ==
  \/ InterpComment
  \/ InterpStartDefinition
  \/ InterpEndDefinition
  \/ InterpLabel
  \/ InterpPrint
  \/ InterpNumber
  \/ InterpString
  \/ InterpIdentifier
  \/ RunReturns

Spec == Init /\ [][Next]_vars

(***************************************************************************)
(* What the last step did, read off the history variable pre.              *)
(***************************************************************************)
\* The last step interpreted a token.
Stepped == pre.ip >= 0 /\ pre.ip < end_addr

\* The last step interpreted an Identifier with this text that the
\* dictionary did not hold.
Ran(name) ==
  /\ Stepped
  /\ Tok(pre.ip).kind = "identifier"
  /\ Tok(pre.ip).text = name
  /\ name \notin DOMAIN pre.dict

\* The last step interpreted the Identifier `branch`, or `?branch` with a
\* nonzero value on top of the data stack.
RanBranch ==
  \/ Ran(I_branch)
  \/ Ran(I_qbranch) /\ pre.d # << >> /\ Top(pre.d) # 0

\* ... and the token after it is a Number.
RanNumericBranch ==
  /\ RanBranch
  /\ pre.ip + 1 < end_addr
  /\ Tok(pre.ip + 1).kind = "number"

\* The value of that Number.
Offset == strtol(Tok(pre.ip + 1).text)

\* The sum ip() + off of rel_inst is an int.
OffsetFits == Offset <= IntMax - (pre.ip + 1)

(***************************************************************************)
(* C1.                                                                     *)
(***************************************************************************)
\* C1: in every reachable state the instruction pointer is within the token
\* stream, 0 <= IP <= |TokenStream|, whatever the program and the steps
\* taken; a numeric branch whose target lies before the stream leaves IP at
\* 0, one whose target lies past the end leaves IP at the end.
C1_IpInRange ==
  /\ 0 <= curr_token
  /\ curr_token <= end_addr
  /\ (RanNumericBranch /\ OffsetFits /\ status = "running") =>
       /\ (pre.ip + 1) + Offset < 0 => curr_token = 0
       /\ (pre.ip + 1) + Offset > end_addr => curr_token = end_addr

\* A branch with a negative offset that reaches before the stream was
\* taken from a token that is not the first, and IP is 0.
C1_Witness ==
  /\ RanNumericBranch
  /\ status = "running"
  /\ pre.ip > 0
  /\ (pre.ip + 1) + Offset < 0
  /\ curr_token = 0

(***************************************************************************)
(* C2.                                                                     *)
(***************************************************************************)
\* The last step interpreted an Identifier that named a word of the
\* dictionary: a call.
Called ==
  /\ Stepped
  /\ Tok(pre.ip).kind = "identifier"
  /\ ~isOperation(Tok(pre.ip).text)
  /\ Tok(pre.ip).text \in DOMAIN pre.dict

\* C2: a call from index i pushes exactly i+1, a value in 1..|TokenStream|,
\* onto the return stack, sets IP to the word's dictionary entry and leaves
\* the data stack unchanged; when the body has left the return stack
\* balanced and `;` or `exit` is interpreted, IP becomes i+1 and the return
\* stack is what it was before the call, nested and recursive calls
\* included.
C2_CallReturn ==
  /\ Called =>
       /\ status = "running"
       /\ pre.ip + 1 \in 1..end_addr
       /\ rstack = Append(pre.r, pre.ip + 1)
       /\ curr_token = pre.dict[Tok(pre.ip).text]
       /\ dstack = pre.d
  /\ returned # << >> =>
       /\ status = "running"
       /\ curr_token = returned[1].site + 1
       /\ rstack = returned[1].r

\* A recursive call has returned into the word it was made from, whose own
\* call is still open.
C2_Witness ==
  /\ returned # << >>
  /\ calls # << >>
  /\ Top(calls).entry = returned[1].entry
  /\ curr_token = returned[1].site + 1
  /\ rstack = Append(Top(calls).r, Top(calls).ret)

(***************************************************************************)
(* C3.  The conditionals of a token stream, found by matching each `then`  *)
(* and `else` with the innermost open `if`.                                *)
(***************************************************************************)
IsWord(a, name) == Tok(a).kind = "identifier" /\ Tok(a).text = name

\* The stream read up to address a: the conditionals open there (innermost
\* last), those closed, and whether an `else` or `then` had no `if` to
\* belong to.
RECURSIVE Matching(_)
Matching(a) ==
  IF a = 0 THEN [open |-> << >>, closed |-> {}, stray |-> FALSE]
  ELSE LET s == Matching(a - 1)
           b == a - 1
       IN  IF IsWord(b, I_if)
             THEN [s EXCEPT !.open = Append(@, [if_at |-> b, else_at |-> -1])]
           ELSE IF IsWord(b, I_else)
             THEN IF s.open = << >> \/ Top(s.open).else_at # -1
                    THEN [s EXCEPT !.stray = TRUE]
                  ELSE [s EXCEPT !.open[Len(s.open)].else_at = b]
           ELSE IF IsWord(b, I_then)
             THEN IF s.open = << >> THEN [s EXCEPT !.stray = TRUE]
                  ELSE [s EXCEPT !.open = Pop(@),
                                 !.closed = @ \cup
                                   {[if_at |-> Top(s.open).if_at,
                                     else_at |-> Top(s.open).else_at,
                                     then_at |-> b]}]
           ELSE s

WellNested ==
  /\ Matching(end_addr).open = << >>
  /\ ~Matching(end_addr).stray
  /\ \A n \in {I_if, I_else, I_then} : n \notin DOMAIN dictionary

Conditionals == Matching(end_addr).closed

\* The addresses of the tokens of T and of F.
TrueBranch(c) ==
  (c.if_at + 1)..((IF c.else_at # -1 THEN c.else_at ELSE c.then_at) - 1)
FalseBranch(c) ==
  IF c.else_at # -1 THEN (c.else_at + 1)..(c.then_at - 1) ELSE {}

\* No token has been interpreted twice.
Straight ==
  Cardinality(visited) = IF status = "exited" THEN steps - 1 ELSE steps

\* C3: in a well-nested stream, `if` pops one value c; when c is nonzero
\* control enters T, and the `else` reached at the end of T moves control
\* just past the matching `then`; when c is zero control moves just past
\* the matching `else`, or the matching `then` when there is no `else`;
\* and in a run that interprets no token twice, tokens of T and tokens of F
\* of one conditional are never both interpreted.
C3_Conditional ==
  WellNested =>
    \A c \in Conditionals :
      /\ (Ran(I_if) /\ pre.ip = c.if_at /\ pre.d # << >>) =>
           /\ status = "running"
           /\ dstack = Pop(pre.d)
           /\ Top(pre.d) # 0 => curr_token = c.if_at + 1
           /\ Top(pre.d) = 0 =>
                curr_token =
                  (IF c.else_at # -1 THEN c.else_at ELSE c.then_at) + 1
           /\ (Straight /\ Top(pre.d) = 0) => visited \cap TrueBranch(c) = {}
      /\ (Ran(I_else) /\ pre.ip = c.else_at) =>
           /\ status = "running"
           /\ curr_token = c.then_at + 1
           /\ dstack = pre.d
           /\ Straight => visited \cap FalseBranch(c) = {}
      /\ Straight =>
           \/ visited \cap TrueBranch(c) = {}
           \/ visited \cap FalseBranch(c) = {}
      /\ (Straight /\ c.if_at \in visited /\ status = "exited"
            /\ TrueBranch(c) # {} /\ FalseBranch(c) # {}) =>
           (c.if_at + 1 \in visited) # (c.else_at + 1 \in visited)

\* `if` popped zero and skipped a T that holds a conditional with an
\* `else`, itself holding a conditional: control is past the outer `else`.
C3_Witness ==
  /\ WellNested
  /\ Ran(I_if)
  /\ pre.d # << >> /\ Top(pre.d) = 0
  /\ \E c, c1, c2 \in Conditionals :
       /\ c.if_at = pre.ip
       /\ c.else_at # -1
       /\ c.if_at < c1.if_at /\ c1.then_at < c.else_at
       /\ c1.if_at < c2.if_at /\ c2.then_at < c1.then_at
       /\ c2.else_at # -1
       /\ curr_token = c.else_at + 1

(***************************************************************************)
(* C4.                                                                     *)
(***************************************************************************)
\* The last step interpreted an Identifier.
RanIdentifier == Stepped /\ Tok(pre.ip).kind = "identifier"

\* C4 as the specification states it: an Identifier whose text names an
\* intrinsic runs the intrinsic, even when the dictionary holds a word of
\* that name.
C4_IntrinsicBeforeDictionary ==
  (RanIdentifier /\ ~isOperation(Tok(pre.ip).text)
     /\ Tok(pre.ip).text \in IntrinsicNames
     /\ Tok(pre.ip).text \in DOMAIN pre.dict) =>
    Machine \in intrinsic(pre, Tok(pre.ip).text)

\* C4, corrected: the order is operator, then dictionary, then intrinsic.
\* An Identifier that is an operator runs the operator whatever the
\* dictionary holds; otherwise one the dictionary holds is called, even
\* when its text names an intrinsic; the intrinsic runs only when the text
\* is no operator and the dictionary does not hold it.
C4_DictionaryBeforeIntrinsic ==
  RanIdentifier =>
    LET text == Tok(pre.ip).text
    IN  /\ isOperation(text) => Machine \in interpOperation(pre, text)
        /\ (~isOperation(text) /\ text \in DOMAIN pre.dict) =>
             /\ status = "running"
             /\ rstack = Append(pre.r, pre.ip + 1)
             /\ curr_token = pre.dict[text]
             /\ dstack = pre.d
             /\ cout = pre.out
        /\ (~isOperation(text) /\ text \notin DOMAIN pre.dict
              /\ text \in IntrinsicNames) =>
             Machine \in intrinsic(pre, text)

\* A word the program defined under the name of an intrinsic has been
\* called, with a data stack the intrinsic would have changed.
C4_Witness ==
  /\ Called
  /\ Tok(pre.ip).text = I_dup
  /\ pre.d # << >>
  /\ dstack = pre.d
  /\ curr_token = pre.dict[I_dup]

(***************************************************************************)
(* C5.                                                                     *)
(***************************************************************************)
\* The text with its ASCII capitals made small.
Folded(text) == [k \in 1..Len(text) |-> LowerChar(text[k])]

\* C5 as the specification states it: an Identifier the dictionary does not
\* hold whose text is, but for the case of its letters, the name of an
\* intrinsic has the effect of that intrinsic.
C5_CaseFolds ==
  (RanIdentifier /\ ~isOperation(Tok(pre.ip).text)
     /\ Tok(pre.ip).text \notin DOMAIN pre.dict
     /\ Folded(Tok(pre.ip).text) \in IntrinsicNames) =>
    Machine \in run_intrinsic(pre, Folded(Tok(pre.ip).text))

(***************************************************************************)
(* C6.  The sources of the model hold no whitespace inside a token other   *)
(* than a comment, so a source is a row of words, and a word that starts   *)
(* with '(' and is closed by the first ')' after it, at the end of a word, *)
(* is a comment.                                                           *)
(***************************************************************************)
\* The source from position p on with its comments taken out, the words
\* that stay separated by one blank, and the number of comments taken out.
RECURSIVE Uncomment(_, _)
Uncomment(text, p) ==
  LET it == skipWs(text, p)
  IN  IF it > Len(text) THEN [text |-> << >>, n |-> 0]
      ELSE LET close   == FindChar(text, it + 1, ")")
               comment == text[it] = "(" /\ close # 0 /\ Boundary(text, close + 1)
               stop    == IF comment THEN close + 1 ELSE RunEnd(text, it)
               rest    == Uncomment(text, stop)
           IN  IF comment THEN [rest EXCEPT !.n = @ + 1]
               ELSE [rest EXCEPT
                       !.text = SubSeq(text, it, stop - 1) \o << " " >> \o @]

NotComment(t) == t.kind # "comment"

\* C6 as the specification states it: the token stream holds no token of
\* kind Comment.
C6_NoCommentToken ==
  \A a \in 0..(end_addr - 1) : Tok(a).kind # "comment"

\* C6, corrected: the lexer keeps every comment as a token of kind Comment
\* that takes an index of the stream, so the stream is that of the source
\* without its comments with one token more for each comment; the
\* evaluator steps over a Comment by advancing IP by one and changing
\* nothing else; a Comment directly after `:` is the token taken for the
\* name (an error), and a Comment directly after `branch` is the token
\* taken for the target.
C6_CommentsAreTokens ==
  /\ steps = 0 =>   \* the stream is the same in every later state
       /\ SelectSeq(token_stream, NotComment)
            = lexTokens(Uncomment(src, 1).text)
       /\ Len(token_stream)
            = Len(SelectSeq(token_stream, NotComment)) + Uncomment(src, 1).n
  /\ (Stepped /\ Tok(pre.ip).kind = "comment") =>
       Machine = [pre EXCEPT !.ip = pre.ip + 1]
  /\ (Stepped /\ Tok(pre.ip).kind = "start_definition"
        /\ pre.ip + 1 < end_addr /\ Tok(pre.ip + 1).kind = "comment") =>
       /\ status = "error"
       /\ error_msg = "expecting identifier"
       /\ dictionary = pre.dict
  /\ (RanBranch /\ pre.ip + 1 < end_addr /\ Tok(pre.ip + 1).kind = "comment"
        /\ Tok(pre.ip + 1).text \notin DOMAIN pre.labels) =>
       /\ status = "error"
       /\ error_msg = "tried to branch to nonexistent label"

\* The evaluator has stepped over a comment that stands between two
\* tokens.
C6_Witness ==
  /\ Stepped
  /\ Tok(pre.ip).kind = "comment"
  /\ pre.ip > 0
  /\ curr_token = pre.ip + 1
  /\ curr_token < end_addr

(***************************************************************************)
(* C7.                                                                     *)
(***************************************************************************)
\* C7 as the specification states it: `/` or `%` with 0 on top of the data
\* stack ends the run in the error state with exit status 1, pushes no
\* result and lets no later token be interpreted.
C7_DivideByZeroIsError ==
  (RanIdentifier /\ Tok(pre.ip).text \in {W_slash, W_percent}
     /\ Len(pre.d) >= 2 /\ Top(pre.d) = 0) =>
    /\ status = "error"
    /\ exit_code = 1
    /\ Len(dstack) <= Len(pre.d) - 2

(***************************************************************************)
(* C8.                                                                     *)
(***************************************************************************)
\* clamp(a + v, 0, |TokenStream|), computed without leaving the integers
\* of the model.
ClampedSum(a, v) ==
  IF v > end_addr - a THEN end_addr
  ELSE IF a + v < 0 THEN 0
  ELSE a + v

\* C8 as the specification states it: `branch` at index i followed by a
\* Number of value v sets IP to clamp((i+1) + v, 0, |TokenStream|) and
\* changes neither stack.
C8_NumericBranch ==
  (Ran(I_branch) /\ pre.ip + 1 < end_addr
     /\ Tok(pre.ip + 1).kind = "number") =>
    /\ status = "running"
    /\ curr_token = ClampedSum(pre.ip + 1, Offset)
    /\ dstack = pre.d
    /\ rstack = pre.r

(***************************************************************************)
(* C9.                                                                     *)
(***************************************************************************)
\* C9 as the specification states it: every entry of the label table maps
\* a name to the index of a Label token of that name.
C9_LabelsAtLabelTokens ==
  \A n \in DOMAIN labels :
    /\ labels[n] < end_addr
    /\ Tok(labels[n]).kind = "label"
    /\ LabelName(Tok(labels[n]).text) = n

(***************************************************************************)
(* C10.                                                                    *)
(***************************************************************************)
\* The last step interpreted `branch`, and the token after it is an
\* Identifier.
RanNamedBranch ==
  /\ Ran(I_branch)
  /\ pre.ip + 1 < end_addr
  /\ Tok(pre.ip + 1).kind = "identifier"

CountProgram ==
  Join(<< W_colon, W_count, I_dup, W_dot, W_1, W_minus, I_dup, W_0, W_gt,
          I_if, I_branch, W_count, I_then, I_drop, W_semi, W_3, W_count >>)

\* C10 as the specification states it: `branch` with an Identifier that
\* names a word of the dictionary and no label moves control to the entry
\* of the word, and the count program ends normally.
C10_BranchToWord ==
  /\ (RanNamedBranch /\ Tok(pre.ip + 1).text \in DOMAIN pre.dict
        /\ Tok(pre.ip + 1).text \notin DOMAIN pre.labels) =>
       /\ status = "running"
       /\ curr_token = pre.dict[Tok(pre.ip + 1).text]
  /\ (src = CountProgram) => status \in {"running", "exited"}

\* C10, corrected: `branch` looks its Identifier target up in the label
\* table only.  With a label of that name IP becomes the table's entry;
\* without one the run ends in the error state with exit status 1,
\* whether or not the dictionary holds a word of that name, and neither
\* stack is changed.  The count program prints "3" and a newline, and
\* ends in that error at its `branch` with 2 on the data stack.
C10_BranchToLabelOnly ==
  /\ RanNamedBranch =>
       IF Tok(pre.ip + 1).text \in DOMAIN pre.labels
       THEN /\ status = "running"
            /\ curr_token = pre.labels[Tok(pre.ip + 1).text]
       ELSE /\ status = "error"
            /\ error_msg = "tried to branch to nonexistent label"
            /\ exit_code = 1
            /\ dstack = pre.d
            /\ rstack = pre.r
  /\ (src = CountProgram /\ status # "running") =>
       /\ status = "error"
       /\ cout = << 51, 10 >>
       /\ dstack = << 2 >>
       /\ Tok(pre.ip).text = I_branch

\* The count program has ended in the error of its `branch count`, with
\* the word `count` in the dictionary.
C10_Witness ==
  /\ src = CountProgram
  /\ RanNamedBranch
  /\ Tok(pre.ip + 1).text = W_count
  /\ W_count \in DOMAIN pre.dict
  /\ status = "error"
  /\ cout = << 51, 10 >>

(***************************************************************************)
(* C11.                                                                    *)
(***************************************************************************)
\* C11 as the specification states it, for the runs that have not gone
\* past undefined behaviour: every value of the dictionary is an index of
\* the stream, and the token there is neither `:` nor `;`.
C11_EntryInsideBody ==
  ub = 0 => \A n \in DOMAIN dictionary :
    /\ 0 <= dictionary[n] /\ dictionary[n] < end_addr
    /\ Tok(dictionary[n]).kind \notin {"start_definition", "end_definition"}

\* C11, corrected: every value of the dictionary is the index just after
\* the name of a definition of that word, i+2 for a `:` at index i; in a
\* run that has not gone past undefined behaviour it is an index of the
\* stream and a `;` stands at or after it.  The token there is the first of
\* the body, whatever its kind (a `:` too), and for an empty body it is the
\* closing `;` itself.
C11_EntryAfterName ==
  \A n \in DOMAIN dictionary :
    /\ \E i \in 0..(end_addr - 2) :
         /\ Tok(i).kind = "start_definition"
         /\ Tok(i + 1).kind = "identifier"
         /\ Tok(i + 1).text = n
         /\ dictionary[n] = i + 2
    /\ ub = 0 =>
         /\ dictionary[n] < end_addr
         /\ DefinitionEnd(dictionary[n]) < end_addr

\* A word with an empty body has been defined and called: its entry is the
\* index of its `;`, and the call has led there.
C11_Witness ==
  /\ Called
  /\ Tok(curr_token).kind = "end_definition"
  /\ curr_token = dictionary[Tok(pre.ip).text]
  /\ Tok(curr_token - 2).kind = "start_definition"

(***************************************************************************)
(* C12.                                                                    *)
(***************************************************************************)
\* The last step interpreted a String token.
RanString == Stepped /\ Tok(pre.ip).kind = "string"

\* The payload of a String token: the text between the quotes.
Payload(text) == SubSeq(text, 2, Len(text) - 1)

\* The bytes of a payload read from left to right: backslash-n, -r, -t and
\* backslash-backslash are newline, CR, tab and one backslash, another
\* backslash and the character after it are left out, and so is a
\* backslash that ends the payload.
RECURSIVE Deescape(_)
Deescape(sq) ==
  IF sq = << >> THEN << >>
  ELSE IF sq[1] # "\\" THEN << Ord(sq[1]) >> \o Deescape(Tail(sq))
  ELSE IF Len(sq) = 1 THEN << >>
  ELSE (CASE sq[2] = "n"  -> << 10 >>
          [] sq[2] = "r"  -> << 13 >>
          [] sq[2] = "t"  -> << 9 >>
          [] sq[2] = "\\" -> << Ord("\\") >>
          [] OTHER        -> << >>) \o Deescape(Tail(Tail(sq)))

Reverse(sq) == [k \in 1..Len(sq) |-> sq[Len(sq) + 1 - k]]

\* C12 as the specification states it: a String token leaves the data
\* stack as it was, then a 0, then the bytes of the de-escaped payload from
\* the last to the first.
C12_StringLayout ==
  RanString =>
    /\ status = "running"
    /\ dstack = pre.d \o << 0 >> \o Reverse(Deescape(Payload(Tok(pre.ip).text)))

(***************************************************************************)
(* C13.                                                                    *)
(***************************************************************************)
\* The last step interpreted a Print token of the form ."S".
RanStringPrint ==
  /\ Stepped
  /\ Tok(pre.ip).kind = "print"
  /\ Len(Tok(pre.ip).text) > 1
  /\ Tok(pre.ip).text[2] = "\""

\* The last two steps interpreted a String token and the `.s` after it.
RanStringThenDrain ==
  /\ Stepped
  /\ Tok(pre.ip) = [kind |-> "print", text |-> W_dot_s]
  /\ pre2.ip = pre.ip - 1
  /\ pre2.ip >= 0
  /\ Tok(pre2.ip).kind = "string"
  /\ pre.st = "running"

\* The machine m2 and the machine of the state have the same output, data
\* stack, return stack and state of the run.
SameEffect(m2) ==
  /\ m2.out = cout
  /\ m2.d = dstack
  /\ m2.r = rstack
  /\ m2.st = status
  /\ m2.code = exit_code

\* C13: a Print token ."S" has the output, data stack and return stack that
\* the String token "S" followed by `.s` has from the same machine, and the
\* other way round, for every payload S and every data stack.
C13_PrintIsStringThenDrain ==
  /\ RanStringPrint =>
       \E m2 \in interpPrint(next(interpString(pre, Tail(Tok(pre.ip).text))),
                             W_dot_s) : SameEffect(m2)
  /\ RanStringThenDrain =>
       \E m2 \in interpPrint(pre2, << "." >> \o Tok(pre2.ip).text) :
         SameEffect(m2)

\* ."S" with an escape in S has written bytes over a data stack that holds
\* values, and the run goes on.
C13_Witness ==
  /\ RanStringPrint
  /\ \E k \in 1..Len(Tok(pre.ip).text) : Tok(pre.ip).text[k] = "\\"
  /\ pre.d # << >>
  /\ status = "running"
  /\ Len(cout) > Len(pre.out)
  /\ dstack = pre.d

(***************************************************************************)
(* C14.                                                                    *)
(***************************************************************************)
\* C14: a String token whose payload S holds no backslash (and, being a
\* token, no double quote and no zero byte), followed by `.s`, writes
\* exactly the bytes of S in their order and leaves the data stack and the
\* return stack as they were before the String token.
C14_RoundTrip ==
  (RanStringThenDrain
     /\ \A k \in 1..Len(Tok(pre2.ip).text) : Tok(pre2.ip).text[k] # "\\") =>
    LET S == Payload(Tok(pre2.ip).text)
    IN  /\ status = "running"
        /\ cout = pre2.out \o [k \in 1..Len(S) |-> Ord(S[k])]
        /\ dstack = pre2.d
        /\ rstack = pre2.r
        /\ curr_token = pre2.ip + 2

\* "S" .s has written a payload of two different characters, over a data
\* stack that holds values.
C14_Witness ==
  /\ RanStringThenDrain
  /\ Payload(Tok(pre2.ip).text) = << "a", "n" >>
  /\ pre2.d # << >>
  /\ cout = pre2.out \o << Ord("a"), Ord("n") >>
  /\ dstack = pre2.d

(***************************************************************************)
(* C15: the operators.                                                     *)
(***************************************************************************)
\* The last step interpreted this operator.
RanOperator(text) ==
  /\ Stepped
  /\ Tok(pre.ip).kind = "identifier"
  /\ Tok(pre.ip).text = text
  /\ text \notin DOMAIN pre.dict

\* The operands of the last step: r on top, l beneath it, Below under them.
OperandR == pre.d[Len(pre.d)]
OperandL == pre.d[Len(pre.d) - 1]
Below == SubSeq(pre.d, 1, Len(pre.d) - 2)

\* l op r has a value in the range of int.
Representable(text, l, r) ==
  CASE text = W_plus  -> IF r >= 0 THEN l <= IntMax - r ELSE l >= IntMin - r
    [] text = W_minus -> IF r >= 0 THEN l >= IntMin + r ELSE l <= IntMax + r
    [] text = W_star  -> ~MulOverflows(l, r)
    [] text \in {W_slash, W_percent} -> ~DivUndefined(l, r)
    [] OTHER -> TRUE

\* The quotient of l by r truncated toward zero, from the quotient of the
\* magnitudes and the signs.
Magnitude(x) == IF x < 0 THEN -x ELSE x

Quotient(l, r) ==
  IF r = IntMin THEN (IF l = IntMin THEN 1 ELSE 0)
  ELSE LET b == Magnitude(r)
       IN  IF l = IntMin
           THEN LET q == -(IntMax \div b) - (IF IntMax % b = b - 1 THEN 1 ELSE 0)
                IN  IF r > 0 THEN q ELSE -q
           ELSE IF (l < 0) = (r < 0) THEN Magnitude(l) \div b
           ELSE -(Magnitude(l) \div b)

\* The value of l op r.
Value(text, l, r) ==
  CASE text = W_plus    -> l + r
    [] text = W_minus   -> l - r
    [] text = W_star    -> l * r
    [] text = W_slash   -> Quotient(l, r)
    [] text = W_percent -> l - Quotient(l, r) * r
    [] text = W_amp     -> IF l # 0 /\ r # 0 THEN 1 ELSE 0
    [] text = W_pipe    -> IF l # 0 \/ r # 0 THEN 1 ELSE 0
    [] text = W_eq      -> IF l = r THEN 1 ELSE 0
    [] text = W_ne      -> IF l # r THEN 1 ELSE 0
    [] text = W_lt      -> IF l < r THEN 1 ELSE 0
    [] text = W_le      -> IF l <= r THEN 1 ELSE 0
    [] text = W_gt      -> IF l > r THEN 1 ELSE 0
    [] text = W_ge      -> IF l >= r THEN 1 ELSE 0

\* C15: a binary operator on a data stack of two or more elements, whose
\* l op r is representable as an int, replaces r (top) and l (beneath) by
\* the one value l op r, leaves the elements below and the return stack
\* alone and moves IP by one; `-` gives l - r, `/` and `%` the truncated
\* quotient and its remainder, the comparisons and `&`, `|` give 1 or 0;
\* `!` replaces the top x by 1 if x = 0 and by 0 otherwise.
C15_Operators ==
  /\ \A op \in BinaryOperators :
       (RanOperator(op) /\ Len(pre.d) >= 2
          /\ Representable(op, OperandL, OperandR)) =>
         /\ status = "running"
         /\ dstack = Append(Below, Value(op, OperandL, OperandR))
         /\ rstack = pre.r
         /\ curr_token = pre.ip + 1
         /\ cout = pre.out
         /\ ub = pre.ub
  /\ (RanOperator(W_bang) /\ Len(pre.d) >= 1) =>
       /\ status = "running"
       /\ dstack = Append(SubSeq(pre.d, 1, Len(pre.d) - 1),
                          IF pre.d[Len(pre.d)] = 0 THEN 1 ELSE 0)
       /\ rstack = pre.r
       /\ curr_token = pre.ip + 1
       /\ cout = pre.out

\* `-3 7 -` over a 3 leaves 3 and -10: l is the element beneath the top.
C15_Witness ==
  /\ RanOperator(W_minus)
  /\ pre.d = << 3, -3, 7 >>
  /\ dstack = << 3, -10 >>
  /\ curr_token = pre.ip + 1

(***************************************************************************)
(* C16: the stack words.                                                   *)
(***************************************************************************)
\* The last step interpreted the stack word `name` on a data stack of at
\* least `need` elements.
RanStackWord(name, need) == Ran(name) /\ Len(pre.d) >= need

\* The last two steps interpreted the stack word `name`, one directly after
\* the other, the first on a data stack of at least `need` elements.
RanTwice(name, need) ==
  /\ Ran(name)
  /\ pre2.ip = pre.ip - 1
  /\ pre2.ip >= 0
  /\ Tok(pre2.ip) = Tok(pre.ip)
  /\ name \notin DOMAIN pre2.dict
  /\ Len(pre2.d) >= need

\* The data stack is the old one with its top `k` elements replaced by
\* `tops`, and nothing else moved but IP, which advanced by one.
Restacked(k, tops) ==
  /\ status = "running"
  /\ dstack = SubSeq(pre.d, 1, Len(pre.d) - k) \o tops
  /\ rstack = pre.r
  /\ curr_token = pre.ip + 1
  /\ cout = pre.out
  /\ dictionary = pre.dict

\* The k-th element of the old data stack counted from the top (1 = top).
Old(k) == pre.d[Len(pre.d) + 1 - k]

\* C16: dup (a -- a a), drop (a --), swap (a b -- b a), over (a b -- a b a)
\* and rot (a b c -- b c a) change only the top of the data stack as
\* documented, leave the deeper elements and the return stack alone and
\* advance IP by one; swap swap and rot rot rot put the data stack back.
C16_StackWords ==
  /\ RanStackWord(I_dup, 1)  => Restacked(1, << Old(1), Old(1) >>)
  /\ RanStackWord(I_drop, 1) => Restacked(1, << >>)
  /\ RanStackWord(I_swap, 2) => Restacked(2, << Old(1), Old(2) >>)
  /\ RanStackWord(I_over, 2) => Restacked(2, << Old(2), Old(1), Old(2) >>)
  /\ RanStackWord(I_rot, 3)  => Restacked(3, << Old(2), Old(1), Old(3) >>)
  /\ RanTwice(I_swap, 2) => dstack = pre2.d
  /\ (RanTwice(I_rot, 3) /\ curr_token < end_addr
        /\ Tok(curr_token) = Tok(pre.ip)) =>
       \A m3 \in interpIdentifier(Machine, I_rot) :
         m3.d = pre2.d /\ m3.r = pre2.r /\ m3.ip = pre2.ip + 3

\* rot on 7 1 2 3 leaves 7 2 3 1, and a second rot 7 3 1 2.
C16_Witness ==
  /\ RanTwice(I_rot, 3)
  /\ pre2.d = << 7, 1, 2, 3 >>
  /\ pre.d = << 7, 2, 3, 1 >>
  /\ dstack = << 7, 3, 1, 2 >>
  /\ Tok(curr_token).text = I_rot

(***************************************************************************)
(* C17: exit and `;`.                                                      *)
(***************************************************************************)
\* The last step interpreted `;` or the intrinsic `exit`.
RanExit ==
  /\ Stepped
  /\ \/ Tok(pre.ip).kind = "end_definition"
     \/ Ran(I_exit)

\* The run ended in an error at the token of the last step.
EndedInError ==
  /\ status = "error"
  /\ exit_code = 1
  /\ curr_token = pre.ip

\* C17: `exit` or `;` on an empty return stack ends the run in an error;
\* with a top of the return stack outside 0..|TokenStream| it ends the run
\* in an error; otherwise it pops that value and IP becomes that value.
C17_Exit ==
  RanExit =>
    IF pre.r = << >> THEN EndedInError
    ELSE IF Top(pre.r) < 0 \/ Top(pre.r) > end_addr THEN EndedInError
    ELSE /\ status = "running"
         /\ rstack = Pop(pre.r)
         /\ curr_token = Top(pre.r)
         /\ dstack = pre.d
         /\ cout = pre.out

\* `-3 >r exit`: the value put on the return stack by >r is out of range
\* and exit ends the run in an error.
C17_Witness ==
  /\ Ran(I_exit)
  /\ pre.r = << -3 >>
  /\ EndedInError

\* `1 >r ;` jumps to the address that >r put on the return stack.
C17_WitnessJump ==
  /\ RanExit
  /\ Tok(pre.ip).kind = "end_definition"
  /\ pre.r = << 1 >>
  /\ pre.ip = 2
  /\ curr_token = 1

(***************************************************************************)
(* C18: errors end the run.                                                *)
(***************************************************************************)
\* The last step interpreted a `:` that no Identifier follows or that no
\* `;` closes.
RaisedAtDefinition ==
  /\ Stepped
  /\ Tok(pre.ip).kind = "start_definition"
  /\ \/ pre.ip + 1 = end_addr
     \/ Tok(pre.ip + 1).kind # "identifier"
     \/ \A j \in (pre.ip + 2)..(end_addr - 1) : Tok(j).kind # "end_definition"

\* The last step interpreted an `if` on a zero, or an `else`, that no
\* `then` matches.
RaisedAtConditional ==
  \/ /\ Ran(I_if)
     /\ pre.d # << >>
     /\ Top(pre.d) = 0
     /\ IfScan(pre.ip + 1, 0) = end_addr
  \/ /\ Ran(I_else)
     /\ ElseScan(pre.ip + 1, 0) = end_addr

\* The last step interpreted an operator or a stack word on a data stack
\* with too few elements for it.
RaisedAtPop ==
  \/ \E op \in BinaryOperators : RanOperator(op) /\ Len(pre.d) < 2
  \/ RanOperator(W_bang) /\ pre.d = << >>
  \/ \E w \in {I_dup, I_drop} : Ran(w) /\ pre.d = << >>
  \/ \E w \in {I_swap, I_over} : Ran(w) /\ Len(pre.d) < 2
  \/ Ran(I_rot) /\ Len(pre.d) < 3

\* C18 as the specification states it: a token behaviour that raises an
\* error leaves the run in the error state with exit status 1, and nothing
\* more is written to standard output.
C18_ErrorsAreTerminal ==
  (RaisedAtDefinition \/ RaisedAtConditional \/ RaisedAtPop) =>
    /\ status = "error"
    /\ exit_code = 1
    /\ cout = pre.out

(***************************************************************************)
(* C19: a branch word without a target.                                    *)
(***************************************************************************)
\* The last step interpreted a branch word followed by a token that is
\* neither a Number nor an Identifier.
RanBranchWithoutTarget ==
  /\ RanBranch
  /\ pre.ip + 1 < end_addr
  /\ ~isBranchTargetKind(Tok(pre.ip + 1).kind)

\* C19 as the specification states it, where a token follows the branch
\* word: when that token is neither a Number nor an Identifier the run ends
\* with the error "branch word without target", and IP is not moved to a
\* branch destination.
C19_BranchWithoutTarget ==
  RanBranchWithoutTarget =>
    /\ status = "error"
    /\ error_msg = "branch word without target."
    /\ exit_code = 1
    /\ curr_token \in {pre.ip, pre.ip + 1}

(***************************************************************************)
(* C20: ?branch.                                                           *)
(***************************************************************************)
\* The last step interpreted `?branch` on a data stack that is not empty,
\* with a token after it.
RanQBranch ==
  /\ Ran(I_qbranch)
  /\ pre.d # << >>
  /\ pre.ip + 1 < end_addr

\* C20: `?branch` at index i followed by a target token pops one value c.
\* If c is zero IP becomes i + 2 and nothing else changes, whatever the
\* target token is and whether or not a label has its text; if c is nonzero
\* the state is the one `branch` at i produces from the machine with c
\* popped.
C20_QBranch ==
  RanQBranch =>
    IF Top(pre.d) = 0
    THEN /\ status = "running"
         /\ curr_token = pre.ip + 2
         /\ dstack = Pop(pre.d)
         /\ rstack = pre.r
         /\ cout = pre.out
         /\ labels = pre.labels
         /\ dictionary = pre.dict
         /\ ub = pre.ub
    ELSE Machine \in run_intrinsic([pre EXCEPT !.d = Pop(@)], I_branch)

\* `0 ?branch a` with no label a: the target is skipped, not looked up.
C20_Witness ==
  /\ RanQBranch
  /\ Top(pre.d) = 0
  /\ Tok(pre.ip + 1).text = W_a
  /\ W_a \notin DOMAIN pre.labels
  /\ status = "running"
  /\ curr_token = pre.ip + 2

\* `2 ?branch 2` moves IP as `branch 2` does, two tokens past the target.
C20_WitnessTaken ==
  /\ RanQBranch
  /\ Top(pre.d) = 2
  /\ Tok(pre.ip + 1).text = W_2
  /\ curr_token = pre.ip + 3

(***************************************************************************)
(* C21: the effect of a definition.                                        *)
(***************************************************************************)
\* The last step interpreted a `:` at index i with an Identifier at i + 1,
\* and j is the index of the first `;` after i + 1.
RanDefinition(j) ==
  /\ Stepped
  /\ Tok(pre.ip).kind = "start_definition"
  /\ pre.ip + 1 < end_addr
  /\ Tok(pre.ip + 1).kind = "identifier"
  /\ j > pre.ip + 1
  /\ j < end_addr
  /\ Tok(j).kind = "end_definition"
  /\ \A k \in (pre.ip + 2)..(j - 1) : Tok(k).kind # "end_definition"

\* C21: a `:` at index i with the Identifier `name` at i + 1 and the first
\* `;` after it at j sets Dictionary[name] to i + 2, replacing an earlier
\* entry and keeping the other entries, sets IP to j + 1 in the one step (no
\* token of the body is interpreted), writes nothing and leaves the data
\* stack, the return stack and the labels as they were; a `:` inside the
\* body does not make the scan look for a second `;`.
C21_DefinitionSkipped ==
  \A j \in 0..(end_addr - 1) :
    RanDefinition(j) =>
      /\ status = "running"
      /\ DOMAIN dictionary = DOMAIN pre.dict \cup {Tok(pre.ip + 1).text}
      /\ \A n \in DOMAIN dictionary :
           dictionary[n] = IF n = Tok(pre.ip + 1).text THEN pre.ip + 2
                           ELSE pre.dict[n]
      /\ curr_token = j + 1
      /\ cout = pre.out
      /\ dstack = pre.d
      /\ rstack = pre.r
      /\ labels = pre.labels
      /\ ub = pre.ub

\* `: f 1 ; : f 2 ; ...`: the second definition of f replaces the entry of
\* the first.
C21_Witness ==
  /\ RanDefinition(pre.ip + 3)
  /\ Tok(pre.ip + 1).text = W_f
  /\ W_f \in DOMAIN pre.dict
  /\ pre.dict[W_f] = 2
  /\ dictionary[W_f] = 6
  /\ curr_token = 8

\* `: f : g 7 ; ...`: the body of f holds a `:`, and the scan stops at the
\* first `;`.
C21_WitnessFlat ==
  /\ RanDefinition(5)
  /\ pre.ip = 0
  /\ Tok(2).kind = "start_definition"
  /\ curr_token = 6

(***************************************************************************)
(* C22: a bare .s.                                                         *)
(***************************************************************************)
\* The last step interpreted a bare `.s`.
RanDrain == Stepped /\ Tok(pre.ip) = [kind |-> "print", text |-> W_dot_s]

\* The bytes written for the elements of the old data stack above index z,
\* the top first.
WrittenAbove(z) ==
  [k \in 1..(Len(pre.d) - z) |-> pre.d[Len(pre.d) + 1 - k] % 256]

\* C22: a bare `.s` on a data stack whose topmost 0 is at index z writes the
\* elements above z as one byte each, the top first, takes them and the 0
\* off the stack without writing the 0, leaves the elements below z alone
\* and advances IP by one; on a data stack that holds no 0 the run ends in
\* an error at the `.s`, the data stack emptied.
C22_Drain ==
  RanDrain =>
    /\ \A z \in 1..Len(pre.d) :
         (pre.d[z] = 0 /\ \A k \in (z + 1)..Len(pre.d) : pre.d[k] # 0) =>
           /\ status = "running"
           /\ dstack = SubSeq(pre.d, 1, z - 1)
           /\ cout = pre.out \o WrittenAbove(z)
           /\ curr_token = pre.ip + 1
           /\ rstack = pre.r
    /\ (\A k \in 1..Len(pre.d) : pre.d[k] # 0) =>
         /\ status = "error"
         /\ exit_code = 1
         /\ curr_token = pre.ip
         /\ dstack = << >>
         /\ cout = pre.out \o WrittenAbove(0)

\* `7 0 -3 .s`: the byte 253 is written, -3 and the 0 are gone and the 7
\* is still there.
C22_Witness ==
  /\ RanDrain
  /\ pre.d = << 7, 0, -3 >>
  /\ dstack = << 7 >>
  /\ cout = pre.out \o << 253 >>
  /\ curr_token = pre.ip + 1

\* `7 -3 .s`: no 0 on the stack, the run ends in an error.
C22_WitnessError ==
  /\ RanDrain
  /\ pre.d = << 7, -3 >>
  /\ status = "error"
  /\ dstack = << >>

(***************************************************************************)
(* C23: progress.                                                          *)
(***************************************************************************)
\* The token at address a, interpreted with dictionary dict, is none of
\* `branch`, `?branch`, `exit`, `;` and no call of a word.
MovesForward(a, dict) ==
  /\ Tok(a).kind # "end_definition"
  /\ Tok(a).kind = "identifier" =>
       \/ isOperation(Tok(a).text)
       \/ /\ Tok(a).text \notin DOMAIN dict
          /\ Tok(a).text \notin {I_branch, I_qbranch, I_exit}

\* No token interpreted so far was a branch word, an exit or a call (the
\* dictionary only grows, so a name it lacks now it lacked before).
NoJumps == \A a \in visited : MovesForward(a, dictionary)

\* The number of tokens interpreted so far: the return of run() is a step
\* of the model and interprets none.
TokenSteps == IF status = "exited" THEN steps - 1 ELSE steps

\* C23: a token other than `branch`, `?branch`, `exit`, `;` and a call of
\* a word either ends the run (in an error, or abnormally where the code
\* has undefined behaviour) or leaves IP strictly greater than it was; so in
\* a run that has interpreted no such token every token was interpreted at
\* most once, all of them before IP, and the tokens interpreted are at most
\* |TokenStream|.
C23_Progress ==
  /\ (Stepped /\ MovesForward(pre.ip, pre.dict)) =>
       \/ status \in {"error", "crashed"}
       \/ /\ status = "running"
          /\ curr_token > pre.ip
          /\ curr_token <= end_addr
  /\ NoJumps =>
       /\ TokenSteps = Cardinality(visited)
       /\ TokenSteps <= end_addr
       /\ status = "running" => \A a \in visited : a < curr_token

\* `0 if ."yes" else ."no" then cr` has run to its end in five tokens: `if`
\* has skipped forward to the token after `else`.
C23_Witness ==
  /\ NoJumps
  /\ status = "exited"
  /\ end_addr = 7
  /\ visited = {0, 1, 4, 5, 6}
  /\ TokenSteps = 5

=============================================================================
